---- MODULE Spec2Model ----
(***************************************************************************)
(* Hierarchical integer K-means (vl/hikmeans.c).                           *)
(*                                                                         *)
(* The model follows one VlHIKMTree through vl_hikm_new, vl_hikm_init,     *)
(* vl_hikm_train, vl_hikm_push and vl_hikm_delete.  The recursion of       *)
(* xmeans is unfolded into an explicit call stack so that the transient    *)
(* buffers of a build can be observed between its steps; every other       *)
(* operation is one atomic action.  Memory is instrumented: `live` is the  *)
(* set of blocks currently allocated, `dfree` records a release of a block *)
(* that was not allocated.                                                 *)
(*                                                                         *)
(* A datum (M consecutive vl_ikm_data) is one opaque value of Points: the  *)
(* code only ever moves whole data (memcpy of M elements, data + i * M).   *)
(*                                                                         *)
(* The flat clustering engine (ikmeans.c, the vl_ikm_ functions) lies      *)
(* outside hikmeans.c; it is modelled from its contract: a trained filter  *)
(* with K >= 1 centers labels every datum with one label of 0 .. K-1, as a *)
(* function of the datum alone; a filter with no center yields an          *)
(* indeterminate label.                                                    *)
(***************************************************************************)
EXTENDS Integers, Sequences, FiniteSets, TLC

\* ---------------------------------------------------------------- bounds
MaxN == 2
\* largest training set
MaxNq == 2
\* largest query batch
MaxK == 2
\* largest configured branching factor
MaxDepth == 3
\* largest configured depth
MaxM == 1
\* largest configured dimensionality
NumPoints == 2
\* number of distinct data values
MaxLeakedNodes == 1
\* vl_hikm_train over a root still in place is explored for trees of at most
\* this many nodes, and no training is explored once nodes have been leaked
MaxCopyN == 3
\* largest label array given to vl_hikm_copy_subset on its own

\* ------------------------------------------------------------- constants
NULL == 0
DefaultMaxNiters == 200

Points == 1 .. NumPoints
Methods == {0, 1}
\* VL_IKM_LLOYD, VL_IKM_ELKAN

VARIABLES
  tree,         \* the VlHIKMTree record *f
  heap,         \* node id -> VlHIKMNode, for the nodes currently allocated
  live,         \* set of allocated blocks <<kind, id>>
  dfree,        \* TRUE once a block that is not allocated has been freed
  malloc0_null, \* whether vl_malloc(0) returns NULL on this platform
  stack,        \* the active xmeans frames, outermost first
  asgn,         \* the output buffer of the last vl_hikm_push: position -> label
  call,         \* the last API call and its arguments (instrumentation)
  tdata,        \* the dataset of the last vl_hikm_train (instrumentation)
  tpath,        \* per training datum, the labels it received while the tree was built
  cs            \* driver state of the stand-alone vl_hikm_copy_subset runs

vars == <<tree, heap, live, dfree, malloc0_null, stack, asgn, call, tdata, tpath, cs>>

\* ---------------------------------------------------------------- helpers
VL_MIN(a, b) == IF a < b THEN a ELSE b

SeqsOf(S, lo, hi) == UNION {[1 .. n -> S] : n \in lo .. hi}

TreeBlock == <<"tree", 0>>

\* vl_malloc of n bytes' worth of elements: NULL for an empty block where the
\* platform's malloc (0) returns NULL, a fresh block otherwise.
IsNullAlloc(n) == n = 0 /\ malloc0_null

Alloc(lv, blocks) == lv \cup blocks

\* vl_free of the listed blocks, in order: <<live set, double-free flag>>.
RECURSIVE FreeAll(_, _, _)
FreeAll(lv, df, blocks) ==
  IF blocks = <<>> THEN <<lv, df>>
  ELSE FreeAll(lv \ {Head(blocks)}, df \/ Head(blocks) \notin lv, Tail(blocks))

\* The node pointer a vl_malloc (sizeof(VlHIKMNode)) returns: the lowest address
\* not in use.
NewNode(h) ==
  CHOOSE n \in 1 .. (Cardinality(DOMAIN h) + 1) :
    n \notin DOMAIN h /\ \A m \in 1 .. (n - 1) : m \in DOMAIN h

\* ------------------------------------------------ flat clustering engine
\* vl_ikm_new + vl_ikm_init_rand_data + vl_ikm_train: the filters that training
\* on any data may produce for K centers.
IkmTrain(K) ==
  IF K >= 1 THEN {[K |-> K, lab |-> l] : l \in [Points -> 0 .. (K - 1)]}
  ELSE {[K |-> 0, lab |-> [p \in Points |-> 0]]}

\* vl_ikm_get_K
vl_ikm_get_K(filter) == filter.K

\* the labels vl_ikm_push (filter, &best, datum, 1) may store for one datum
GarbageLabels == 0 .. MaxK
IkmPushOne(filter, p) ==
  IF filter.K >= 1 THEN {filter.lab[p]} ELSE GarbageLabels

\* vl_ikm_push (filter, ids, data, N) on the data the filter was trained on
\* (N >= 1 implies K >= 1 there).
IkmPush(filter, data, N) == [i \in 1 .. N |-> filter.lab[data[i]]]

\* ---------------------------------------------------- vl_hikm_copy_subset
\* (variant: the copying loop stops one datum short)
RECURSIVE CopyLoop_short(_, _, _, _, _, _)
CopyLoop_short(data, ids, N, id, i, new_data) ==
  IF i > N - 1 THEN new_data
  ELSE CopyLoop_short(data, ids, N, id, i + 1,
                      IF ids[i] = id THEN Append(new_data, data[i]) ELSE new_data)

\* the loop of lines 65-72
RECURSIVE CopyLoop(_, _, _, _, _, _)
CopyLoop(data, ids, N, id, i, new_data) ==
  IF i > N THEN new_data
  ELSE CopyLoop(data, ids, N, id, i + 1,
                IF ids[i] = id THEN Append(new_data, data[i]) ELSE new_data)

vl_hikm_copy_subset(data, ids, N, id) ==
  LET new_data == CopyLoop(data, ids, N, id, 1, <<>>)
  IN [new_data |-> new_data, N2 |-> Len(new_data)]

\* ------------------------------------------------------------------ xdelete
\* (variant: the node's filter is not deleted)
RECURSIVE xdelete_nofilter(_, _)
xdelete_nofilter(h, node) ==
  IF node = NULL THEN <<>>
  ELSE LET nd == h[node]
           RECURSIVE Kids(_)
           Kids(k) == IF k >= vl_ikm_get_K(nd.filter) THEN <<>>
                      ELSE xdelete_nofilter(h, nd.children[k + 1]) \o Kids(k + 1)
       IN (IF nd.children_null THEN <<>>
           ELSE Kids(0) \o << <<"children", node>> >>)
          \o << <<"node", node>> >>

\* The blocks xdelete (node) releases, in the order it releases them.
RECURSIVE xdelete(_, _)
xdelete(h, node) ==
  IF node = NULL THEN <<>>
  ELSE LET nd == h[node]
           RECURSIVE Kids(_)
           Kids(k) == IF k >= vl_ikm_get_K(nd.filter) THEN <<>>
                      ELSE xdelete(h, nd.children[k + 1]) \o Kids(k + 1)
       IN (IF nd.children_null THEN <<>>
           ELSE Kids(0) \o << <<"children", node>> >>)
          \o << <<"filter", node>> >>
          \o << <<"node", node>> >>

\* ------------------------------------------------------------- vl_hikm_new
NewTree(method) ==
  [M |-> 0, K |-> 0, max_niters |-> DefaultMaxNiters, method |-> method,
   verb |-> 0, depth |-> 0, root |-> NULL]

CsIdle ==
  [data |-> <<>>, ids |-> <<>>, K |-> 0, k |-> 0, counts |-> <<>>, bufs |-> <<>>,
   tags |-> <<>>]

Init ==
  /\ \E method \in Methods : tree = NewTree(method)
  /\ heap = <<>>
  /\ live = {TreeBlock}
  /\ dfree = FALSE
  /\ malloc0_null \in BOOLEAN
  /\ stack = <<>>
  /\ asgn = <<>>
  /\ call = [op |-> "new"]
  /\ tdata = <<>>
  /\ tpath = <<>>
  /\ cs = CsIdle

Alive == TreeBlock \in live
Idle == Alive /\ stack = <<>>

\* ------------------------------------------------------------ vl_hikm_init
vl_hikm_init ==
  /\ Idle
  /\ \E M \in 1 .. MaxM, K \in 1 .. MaxK, depth \in 1 .. MaxDepth :
       LET blocks == xdelete(heap, tree.root)
           fr == FreeAll(live, dfree, blocks)
       IN /\ live' = fr[1]
          /\ dfree' = fr[2]
          /\ heap' = [n \in {m \in DOMAIN heap : <<"node", m>> \in fr[1]} |-> heap[n]]
          /\ tree' = [tree EXCEPT !.root = NULL, !.M = M, !.K = K, !.depth = depth]
          /\ call' = [op |-> "init", M |-> M, K |-> K, depth |-> depth,
                      freed |-> {blocks[i] : i \in 1 .. Len(blocks)}]
  /\ asgn' = <<>>
  /\ tdata' = <<>>
  /\ tpath' = <<>>
  /\ UNCHANGED <<malloc0_null, stack, cs>>

\* ----------------------------------------------------------- vl_hikm_train
\* the nodes stored in node->children
ChildrenOf(h, n) == {h[n].children[k] : k \in 1 .. Len(h[n].children)} \ {NULL}

\* the nodes of the subtree of `node`
RECURSIVE Reach(_, _)
Reach(h, node) ==
  IF node = NULL THEN {}
  ELSE {node} \cup
       (IF h[node].children_null THEN {}
        ELSE UNION {Reach(h, c) : c \in ChildrenOf(h, node)})

\* The nodes that are allocated but no longer referenced from the tree.
LeakedNodes == DOMAIN heap \ Reach(heap, tree.root)

Frame(data, own, N, K, height) ==
  [data |-> data, own |-> own, N |-> N, K |-> K, height |-> height,
   node |-> NULL, ids |-> <<>>, ids_null |-> TRUE, k |-> 0,
   partition |-> <<>>, part_null |-> TRUE, pc |-> "enter"]

\* (variant: the root is trained with the configured K, unclamped)
RootK_unclamped(K, N) == K

\* VL_MIN(f->K, N)
RootK(K, N) == VL_MIN(K, N)

\* f -> root = xmeans (f, data, N, VL_MIN(f->K, N), f->depth): the call.
\* The caller passes N >= 1 data to a configured tree (K >= 1, depth >= 1).
vl_hikm_train ==
  /\ Idle
  /\ tree.K >= 1 /\ tree.depth >= 1
  /\ LeakedNodes = {}
  /\ tree.root # NULL => Cardinality(DOMAIN heap) <= MaxLeakedNodes
  /\ \E data \in SeqsOf(Points, 1, MaxN) :
       LET N == Len(data)
       IN /\ stack' = <<Frame(data, [i \in 1 .. N |-> i], N, RootK(tree.K, N),
                                tree.depth)>>
          /\ tdata' = data
          /\ tpath' = [i \in 1 .. N |-> <<>>]
          /\ call' = [op |-> "train", N |-> N]
  /\ asgn' = <<>>
  /\ UNCHANGED <<tree, heap, live, dfree, malloc0_null, cs>>

\* ------------------------------------------------------------------ xmeans
Top == stack[Len(stack)]
Level == Len(stack)
SetTop(fr) == [stack EXCEPT ![Len(stack)] = fr]

\* the test of the loop for (k = 0 ; k < K ; k ++)
LoopPc(k, K) == IF k < K THEN "loop" ELSE "exit"

\* node->children = (height == 1) ? 0 : vl_malloc (sizeof(VlHIKMNode*) * K)
ChildrenNull(height, K) == height = 1 \/ IsNullAlloc(K)

\* partition_K = VL_MIN (K, partition_N)
PartitionK(K, partition_N) == VL_MIN(K, partition_N)

\* lines 95-105: allocate the node and the label array, train the filter on
\* the data and label the data with it.
XEnter ==
  /\ stack # <<>> /\ Top.pc = "enter"
  /\ LET fr == Top
         node == NewNode(heap)
         cnull == ChildrenNull(fr.height, fr.K)
         inull == IsNullAlloc(fr.N)
     IN \E filter \in IkmTrain(fr.K) :
          LET ids == IkmPush(filter, fr.data, fr.N)
          IN /\ heap' = [n \in DOMAIN heap \cup {node} |->
                           IF n = node
                           THEN [filter |-> filter, children_null |-> cnull,
                                 children |-> IF cnull THEN <<>>
                                              ELSE [k \in 1 .. fr.K |-> NULL],
                                 N |-> fr.N]
                           ELSE heap[n]]
             /\ live' = Alloc(live, {<<"node", node>>, <<"filter", node>>}
                                 \cup (IF inull THEN {} ELSE {<<"ids", Level>>})
                                 \cup (IF cnull THEN {} ELSE {<<"children", node>>}))
             /\ tpath' = [i \in DOMAIN tpath |->
                            IF \E j \in 1 .. fr.N : fr.own[j] = i
                            THEN Append(tpath[i],
                                        ids[CHOOSE j \in 1 .. fr.N : fr.own[j] = i])
                            ELSE tpath[i]]
             /\ stack' = SetTop([fr EXCEPT !.node = node, !.ids = ids,
                                           !.ids_null = inull, !.k = 0,
                                           !.pc = IF fr.height > 1
                                                  THEN LoopPc(0, fr.K) ELSE "exit"])
  /\ UNCHANGED <<tree, dfree, malloc0_null, asgn, call, tdata, cs>>

\* lines 115-121: copy the data labelled k and call xmeans on the copy.
XCopy ==
  /\ stack # <<>> /\ Top.pc = "loop"
  /\ LET fr == Top
         part == vl_hikm_copy_subset(fr.data, fr.ids, fr.N, fr.k)
         pown == vl_hikm_copy_subset(fr.own, fr.ids, fr.N, fr.k)
         partition_N == part.N2
         partition_K == PartitionK(fr.K, partition_N)
         pnull == IsNullAlloc(partition_N)
     IN /\ live' = Alloc(live, IF pnull THEN {} ELSE {<<"partition", Level>>})
        /\ stack' = Append(SetTop([fr EXCEPT !.partition = part.new_data,
                                             !.part_null = pnull, !.pc = "call"]),
                           Frame(part.new_data, pown.new_data, partition_N,
                                 partition_K, fr.height - 1))
  /\ UNCHANGED <<tree, heap, dfree, malloc0_null, asgn, call, tdata, tpath, cs>>

\* lines 133-134 of the callee and the store node->children [k] = ... of line 120
XReturn ==
  /\ Len(stack) > 1 /\ Top.pc = "exit"
  /\ LET fr == Top
         caller == stack[Len(stack) - 1]
         rel == FreeAll(live, dfree, IF fr.ids_null THEN <<>> ELSE << <<"ids", Level>> >>)
     IN /\ live' = rel[1]
        /\ dfree' = rel[2]
        /\ heap' = [heap EXCEPT ![caller.node].children[caller.k + 1] = fr.node]
        /\ stack' = [SubSeq(stack, 1, Len(stack) - 1)
                       EXCEPT ![Len(stack) - 1].pc = "ret"]
  /\ UNCHANGED <<tree, malloc0_null, asgn, call, tdata, tpath, cs>>

\* (variant: the partition is not freed)
FreePartition_omitted(part_null, level) == <<>>

\* vl_free (partition)
FreePartition(part_null, level) ==
  IF part_null THEN <<>> ELSE << <<"partition", level>> >>

\* line 123 and the k ++ of the loop
XFree ==
  /\ stack # <<>> /\ Top.pc = "ret"
  /\ LET fr == Top
         rel == FreeAll(live, dfree, FreePartition(fr.part_null, Level))
     IN /\ live' = rel[1]
        /\ dfree' = rel[2]
        /\ stack' = SetTop([fr EXCEPT !.partition = <<>>, !.part_null = TRUE,
                                      !.k = fr.k + 1, !.pc = LoopPc(fr.k + 1, fr.K)])
  /\ UNCHANGED <<tree, heap, malloc0_null, asgn, call, tdata, tpath, cs>>

\* lines 133-134 of the outermost xmeans and the store f -> root = ... of line 228
TrainReturn ==
  /\ Len(stack) = 1 /\ Top.pc = "exit"
  /\ LET fr == Top
         rel == FreeAll(live, dfree, IF fr.ids_null THEN <<>> ELSE << <<"ids", Level>> >>)
     IN /\ live' = rel[1]
        /\ dfree' = rel[2]
        /\ tree' = [tree EXCEPT !.root = fr.node]
        /\ stack' = <<>>
  /\ UNCHANGED <<heap, malloc0_null, asgn, call, tdata, tpath, cs>>

\* ------------------------------------------------------------ vl_hikm_push
\* (variant: the walk always descends into the first child)
Descend_first(children, best) == children[1]

\* node = node->children [best]
Descend(children, best) == children[best + 1]

\* asgn [i*depth + d]
AsgnPos(i, depth, d) == i * depth + d

\* The walks the loop while (node) may take for one datum from `node`: the
\* labels stored, in order; whether a slot outside node->children was read
\* (the pointer read is indeterminate, the walk is cut there); whether a
\* filter without centers was asked for a label.
RECURSIVE Walk(_, _, _)
Walk(h, node, p) ==
  IF node = NULL THEN {[w |-> <<>>, oob |-> FALSE, degen |-> FALSE]}
  ELSE LET nd == h[node]
           nocenter == vl_ikm_get_K(nd.filter) = 0
       IN UNION {
            IF nd.children_null
            THEN {[w |-> <<best>>, oob |-> FALSE, degen |-> nocenter]}
            ELSE IF best < Len(nd.children)
            THEN {[w |-> <<best>> \o r.w, oob |-> r.oob, degen |-> r.degen \/ nocenter] :
                    r \in Walk(h, Descend(nd.children, best), p)}
            ELSE {[w |-> <<best>>, oob |-> TRUE, degen |-> nocenter]} :
            best \in IkmPushOne(nd.filter, p)}

\* The stores of the walks `outs` (one per datum) into asgn.
Stores(outs, N, depth) ==
  {<<i, d>> \in (0 .. (N - 1)) \X (0 .. MaxDepth) : d < Len(outs[i + 1].w)}

Written(outs, N, depth) ==
  LET st == Stores(outs, N, depth)
      pos == {AsgnPos(s[1], depth, s[2]) : s \in st}
      last(q) == CHOOSE s \in st :
                   /\ AsgnPos(s[1], depth, s[2]) = q
                   /\ \A t \in st : AsgnPos(t[1], depth, t[2]) = q =>
                        (t[1] < s[1] \/ (t[1] = s[1] /\ t[2] <= s[2]))
  IN [q \in pos |-> outs[last(q)[1] + 1].w[last(q)[2] + 1]]

vl_hikm_push ==
  /\ Idle
  /\ \E data \in SeqsOf(Points, 1, MaxNq) :
       LET N == Len(data)
           depth == tree.depth
           all == UNION {Walk(heap, tree.root, data[i]) : i \in 1 .. N}
       IN \E outs \in [1 .. N -> all] :
            /\ \A i \in 1 .. N : outs[i] \in Walk(heap, tree.root, data[i])
            /\ asgn' = Written(outs, N, depth)
            /\ call' = [op |-> "push", data |-> data, N |-> N,
                        oob |-> \E i \in 1 .. N : outs[i].oob,
                        degen |-> \E i \in 1 .. N : outs[i].degen]
  /\ UNCHANGED <<tree, heap, live, dfree, malloc0_null, stack, tdata, tpath, cs>>

\* ---------------------------------------------------------- vl_hikm_delete
vl_hikm_delete ==
  /\ Idle
  /\ LET blocks == xdelete(heap, tree.root) \o <<TreeBlock>>
         rel == FreeAll(live, dfree, blocks)
     IN /\ live' = rel[1]
        /\ dfree' = rel[2]
        /\ heap' = [n \in {m \in DOMAIN heap : <<"node", m>> \in rel[1]} |-> heap[n]]
        /\ call' = [op |-> "delete"]
  /\ asgn' = <<>>
  /\ tdata' = <<>>
  /\ tpath' = <<>>
  /\ UNCHANGED <<tree, malloc0_null, stack, cs>>

Next ==
  \/ vl_hikm_init
  \/ vl_hikm_train
  \/ XEnter
  \/ XCopy
  \/ XReturn
  \/ XFree
  \/ TrainReturn
  \/ vl_hikm_push
  \/ vl_hikm_delete

Spec == Init /\ [][Next]_vars

\* ------------------------------------- vl_hikm_copy_subset on its own
\* One label array over N data and the K calls vl_hikm_copy_subset (data, ids,
\* N, M, k, &N2), k = 0 .. K-1.  `tags` is the same copy applied to the indices
\* 1 .. N in place of the data: it tells which data each call copied.
InitCopy ==
  /\ tree = NewTree(0)
  /\ heap = <<>>
  /\ live = {TreeBlock}
  /\ dfree = FALSE
  /\ malloc0_null = FALSE
  /\ stack = <<>>
  /\ asgn = <<>>
  /\ call = [op |-> "new"]
  /\ tdata = <<>>
  /\ tpath = <<>>
  /\ \E data \in SeqsOf(Points, 0, MaxCopyN), K \in 1 .. MaxK :
       \E ids \in [1 .. Len(data) -> 0 .. (K - 1)] :
         cs = [data |-> data, ids |-> ids, K |-> K, k |-> 0,
               counts |-> <<>>, bufs |-> <<>>, tags |-> <<>>]

CopyNext ==
  /\ cs.k < cs.K
  /\ LET N == Len(cs.data)
         r == vl_hikm_copy_subset(cs.data, cs.ids, N, cs.k)
         t == vl_hikm_copy_subset([i \in 1 .. N |-> i], cs.ids, N, cs.k)
     IN cs' = [cs EXCEPT !.k = cs.k + 1,
                         !.counts = Append(cs.counts, r.N2),
                         !.bufs = Append(cs.bufs, r.new_data),
                         !.tags = Append(cs.tags, t.new_data)]
  /\ UNCHANGED <<tree, heap, live, dfree, malloc0_null, stack, asgn, call, tdata, tpath>>

NextCopy == CopyNext

SpecCopy == InitCopy /\ [][NextCopy]_vars

\* ==================================================================== claims
RECURSIVE SumSeq(_)
SumSeq(s) == IF s = <<>> THEN 0 ELSE Head(s) + SumSeq(Tail(s))

Trained == Alive /\ tree.root # NULL

\* the labels stored in asgn for the datum at index j (1-based) of a batch
PathOf(a, j, depth) ==
  [d \in {e \in 1 .. depth : AsgnPos(j - 1, depth, e - 1) \in DOMAIN a} |->
     a[AsgnPos(j - 1, depth, d - 1)]]

IsLeaf(h, n) == h[n].children_null \/ Len(h[n].children) = 0

\* the numbers of nodes on the paths from `node` down to a leaf
RECURSIVE LeafDepths(_, _)
LeafDepths(h, node) ==
  IF IsLeaf(h, node) THEN {1}
  ELSE {1 + d : d \in UNION {LeafDepths(h, c) : c \in ChildrenOf(h, node)}}

\* The blocks of the nodes of the subtree of `node`.
SubtreeBlocks(h, node) ==
  LET sub == Reach(h, node)
  IN {<<"node", n>> : n \in sub} \cup {<<"filter", n>> : n \in sub}
     \cup {<<"children", n>> : n \in {m \in sub : ~h[m].children_null}}

Partitions == {b \in live : b[1] = "partition"}
LabelArrays == {b \in live : b[1] = "ids"}

\* C1: in a trained tree of configured depth D, every path from the root to a
\* node without children has exactly D nodes.
C1_DepthInvariant ==
  Trained => LeafDepths(heap, tree.root) = {tree.depth}

\* C2: every node of the trained tree that has a children array has as many
\* children attached as its filter has centers, and that number is
\* min (configured K, number of data the node was trained on).
C2_Branching ==
  Trained =>
  \A n \in Reach(heap, tree.root) :
    ~heap[n].children_null =>
      /\ Len(heap[n].children) = vl_ikm_get_K(heap[n].filter)
      /\ \A k \in 1 .. Len(heap[n].children) : heap[n].children[k] \in DOMAIN heap
      /\ vl_ikm_get_K(heap[n].filter) = VL_MIN(tree.K, heap[n].N)

C2_Witness ==
  /\ Idle /\ Trained
  /\ \E n \in Reach(heap, tree.root) :
       /\ n # tree.root
       /\ ~heap[n].children_null
       /\ Len(heap[n].children) >= 1
       /\ vl_ikm_get_K(heap[n].filter) < tree.K

\* C3: vl_hikm_push on a trained tree of depth D stores, for the Nq data of the
\* batch, exactly the cells 0 .. Nq*D - 1 of asgn (D labels per datum).
C3_PathLength ==
  (call.op = "push" /\ Trained) => DOMAIN asgn = 0 .. (call.N * tree.depth - 1)

\* C4: after vl_hikm_delete every block ever allocated for the tree has been
\* released exactly once: none is still allocated, none was freed twice.
C4_MemoryDiscipline ==
  call.op = "delete" => (live = {} /\ ~dfree)

\* C5: over the K labels, the counts vl_hikm_copy_subset returns sum to N, every
\* datum is copied exactly once, into the subset of its own label, each buffer
\* holds the copied data in their original order, and a label no datum bears
\* gives count 0 and an empty buffer.
C5_PartitionComplete ==
  (cs.K >= 1 /\ cs.k = cs.K) =>
    LET N == Len(cs.data)
    IN /\ SumSeq(cs.counts) = N
       /\ \A i \in 1 .. N :
            /\ Cardinality({<<k, j>> \in (1 .. cs.K) \X (1 .. N) :
                              j <= Len(cs.tags[k]) /\ cs.tags[k][j] = i}) = 1
            /\ \E j \in 1 .. Len(cs.tags[cs.ids[i] + 1]) : cs.tags[cs.ids[i] + 1][j] = i
       /\ \A k \in 1 .. cs.K :
            /\ cs.counts[k] = Len(cs.bufs[k])
            /\ Len(cs.tags[k]) = Len(cs.bufs[k])
            /\ \A j \in 1 .. Len(cs.bufs[k]) : cs.bufs[k][j] = cs.data[cs.tags[k][j]]
            /\ \A j \in 1 .. (Len(cs.tags[k]) - 1) : cs.tags[k][j] < cs.tags[k][j + 1]
            /\ (\A i \in 1 .. N : cs.ids[i] # k - 1) =>
                 (cs.counts[k] = 0 /\ cs.bufs[k] = <<>>)

C5_Witness ==
  /\ cs.K = MaxK /\ cs.k = cs.K /\ Len(cs.data) >= 3
  /\ \E k \in 1 .. cs.K : cs.counts[k] = 0
  /\ \E k \in 1 .. cs.K : cs.counts[k] >= 3

\* C6: a step of vl_hikm_push leaves the tree record and every node unchanged,
\* gives equal data of the batch equal paths, and gives a datum the path the
\* preceding vl_hikm_push gave it on the same tree.
C6_PushReadOnlyDeterministic ==
  [][call'.op = "push" =>
       /\ tree' = tree /\ heap' = heap
       /\ \A i, j \in 1 .. call'.N :
            call'.data[i] = call'.data[j] =>
              PathOf(asgn', i, tree.depth) = PathOf(asgn', j, tree.depth)
       /\ call.op = "push" =>
            \A i \in 1 .. call.N, j \in 1 .. call'.N :
              call.data[i] = call'.data[j] =>
                PathOf(asgn, i, tree.depth) = PathOf(asgn', j, tree.depth)]_vars

\* C7: on the freshly trained tree, vl_hikm_push gives every datum of the
\* training set the labels it received, level by level, while xmeans built
\* the tree.
C7_TrainQueryAgreement ==
  (call.op = "push" /\ Trained) =>
    \A i \in 1 .. Len(tdata), j \in 1 .. call.N :
      call.data[j] = tdata[i] => PathOf(asgn, j, tree.depth) = tpath[i]

C7_Witness ==
  /\ call.op = "push" /\ Trained /\ tree.depth = 3
  /\ \E i \in 1 .. Len(tdata), j \in 1 .. call.N :
       /\ call.data[j] = tdata[i]
       /\ tpath[i][1] = 1
       /\ Len(tpath[i]) = 3

\* C8: a step of vl_hikm_init releases the blocks of every node of the subtree
\* held (each was allocated, none is freed twice, nothing else is freed),
\* leaves no root, sets M, K and depth to its arguments and keeps the method
\* and the iteration cap.
C8_Configure ==
  [][call'.op = "init" =>
       LET blocks == SubtreeBlocks(heap, tree.root)
       IN /\ blocks \subseteq live
          /\ live' = live \ blocks
          /\ dfree' = dfree
          /\ DOMAIN heap' = DOMAIN heap \ Reach(heap, tree.root)
          /\ tree'.root = NULL
          /\ tree'.M = call'.M /\ tree'.K = call'.K /\ tree'.depth = call'.depth
          /\ tree'.method = tree.method
          /\ tree'.max_niters = tree.max_niters]_vars

C8_Witness ==
  /\ call.op = "init" /\ ~Trained /\ ~dfree
  /\ Cardinality(call.freed) >= 5
  /\ live = {TreeBlock}
  /\ tree.K = call.K /\ tree.depth = call.depth

\* C9: during a build the allocated subset buffers are at most one per active
\* xmeans frame and at most D-1; a buffer is allocated only while the call its
\* frame made for it is running or has just returned; once the build is over
\* no subset buffer and no label array is allocated.
C9_TransientBuffers ==
  /\ Cardinality(Partitions) <= Len(stack)
  /\ stack # <<>> => Cardinality(Partitions) <= tree.depth - 1
  /\ \A b \in Partitions :
       /\ b[2] \in 1 .. Len(stack)
       /\ \/ b[2] < Len(stack) /\ stack[b[2]].pc = "call"
          \/ b[2] = Len(stack) /\ stack[b[2]].pc = "ret"
  /\ \A b \in LabelArrays : b[2] \in 1 .. Len(stack)
  /\ stack = <<>> => (Partitions = {} /\ LabelArrays = {})

C9_Witness ==
  /\ Len(stack) = 3
  /\ Cardinality(Partitions) = 2
  /\ Top.pc = "exit"

\* C10: during vl_hikm_push on a trained tree every filter asked for a label
\* has at least one center and every label used to descend is an index of the
\* children array of its node.
C10_ValidDescent ==
  (call.op = "push" /\ Trained) => (~call.oob /\ ~call.degen)
====
